---- MODULE Spec2Model ----
(***************************************************************************)
(* A model of the probe-and-alert engine of enhanced-pinger:              *)
(*   - Pinger.__init__, ping_once, system_ping (src/pinger.py)            *)
(*   - execute_shell_command / execute_shell_script (src/pinger.py)       *)
(*   - the monitoring loop Pinger.start and _print_summary (src/pinger.py)*)
(*   - the GUI's loop PingerWorker.run / stop (src/pinger_gui.py)         *)
(*   - the main window's Start/Stop handling (src/pinger_gui.py)          *)
(*   - the figures test_all_servers stores (src/ytsetup_enhanced.py)      *)
(* Time is counted in whole seconds; latencies in milliseconds.           *)
(***************************************************************************)
EXTENDS Integers, Sequences, FiniteSets, TLC

(***************************************************************************)
(* Optional values: Python's None is the empty tuple, a value v is <<v>>. *)
(***************************************************************************)
None == <<>>

Some(v) == <<v>>

IsNone(o) == Len(o) = 0

\* Python truthiness of an Optional[int]: None and 0 are falsy.
TruthyInt(o) == Len(o) = 1 /\ o[1] # 0

\* Python truthiness of an Optional[str]: None and "" are falsy.
TruthyStr(o) == Len(o) = 1 /\ o[1] # ""

(***************************************************************************)
(* Targets are strings, modelled as tuples of one-character strings.      *)
(***************************************************************************)
T_host == <<"h">>

T_http == <<"h", "t", "t", "p", ":", "/", "/", "h">>

T_https == <<"h", "t", "t", "p", "s", ":", "/", "/", "h">>

T_ftp == <<"f", "t", "p", ":", "/", "/", "h">>

T_upper == <<"H", "T", "T", "P", ":", "/", "/", "h">>

T_noscheme == <<":", "/", "/", "h">>

T_hostport == <<"h", ":", "8">>

Targets == {T_host, T_http, T_https, T_ftp, T_upper, T_noscheme, T_hostport}

Separator == <<":", "/", "/">>

\* Python's `sub in s` for strings.
Contains(s, sub) ==
    \E i \in 1..(Len(s) - Len(sub) + 1) :
        \A k \in 1..Len(sub) : s[i + k - 1] = sub[k]

\* 1-based index of the first occurrence of character c in s, 0 when absent.
Find(s, c) ==
    IF \E i \in 1..Len(s) : s[i] = c
    THEN CHOOSE i \in 1..Len(s) : s[i] = c /\ \A j \in 1..(i - 1) : s[j] # c
    ELSE 0

Alpha == {"h", "t", "p", "s", "f", "H", "T", "P"}

SchemeChars == Alpha \cup {"8", "+", "-", "."}

Lower(c) ==
    CASE c = "H" -> "h"
      [] c = "T" -> "t"
      [] c = "P" -> "p"
      [] OTHER -> c

\* urllib.parse.urlparse(target).scheme: the text before the first ":" when it
\* starts with a letter and holds only scheme characters, lower-cased; else "".
UrlScheme(url) ==
    LET i == Find(url, ":")
    IN  IF i > 1 /\ url[1] \in Alpha /\ \A k \in 1..(i - 1) : url[k] \in SchemeChars
        THEN [k \in 1..(i - 1) |-> Lower(url[k])]
        ELSE <<>>

S_http == <<"h", "t", "t", "p">>

S_https == <<"h", "t", "t", "p", "s">>

\* Pinger.__init__, lines 85-94: is_url and protocol are fixed at construction.
InitIsUrl(t) == Contains(t, Separator)

InitProtocol(t) == IF Contains(t, Separator) THEN UrlScheme(t) ELSE <<>>

(***************************************************************************)
(* Exceptions: a raised exception is its class and its text str(e); NoExc  *)
(* stands for a normal return.                                             *)
(***************************************************************************)
Exc(class, text) == [ class |-> class, text |-> text ]

NoExc == Exc("", "")

\* The part of Python's exception hierarchy the program meets.
ParentClass(c) ==
    CASE c = "Exception" -> "BaseException"
      [] c = "KeyboardInterrupt" -> "BaseException"
      [] c = "OSError" -> "Exception"
      [] c = "ValueError" -> "Exception"
      [] c = "IndexError" -> "Exception"
      [] c = "HTTPException" -> "Exception"
      [] c = "CalledProcessError" -> "Exception"
      [] c = "TimeoutError" -> "OSError"
      [] c = "ConnectionRefusedError" -> "OSError"
      [] c = "gaierror" -> "OSError"
      [] c = "FileNotFoundError" -> "OSError"
      [] c = "PermissionError" -> "OSError"
      [] OTHER -> ""

RECURSIVE IsSubclass(_, _)
IsSubclass(c, base) ==
    IF c = "" THEN FALSE
    ELSE IF c = base THEN TRUE
    ELSE IsSubclass(ParentClass(c), base)

\* `except <classes>` catches e.
Catches(classes, e) == \E b \in classes : IsSubclass(e.class, b)

(***************************************************************************)
(* What the outside world answers to one probe.  Each probe strategy      *)
(* reads only its own field.                                               *)
(***************************************************************************)
\* socket.connect((host, 80)) returns or raises.
ConnectOutcomes ==
    { NoExc,
      Exc("TimeoutError", "timed out"),
      Exc("ConnectionRefusedError", "[Errno 111] Connection refused"),
      Exc("gaierror", "[Errno -2] Name or service not known") }

HttpStatuses == {199, 200, 204, 301, 399, 400, 404, 500}

\* The HEAD exchange (request, getresponse) returns a status or raises.
HttpOutcomes ==
    [ exc : {NoExc}, status : HttpStatuses ]
        \cup [ exc : { Exc("gaierror", "[Errno -2] Name or service not known"),
                       Exc("HTTPException", "Remote end closed connection"),
                       Exc("TimeoutError", "timed out") },
               status : {0} ]

\* One line of the ping utility's output: the timing token it holds ("" when
\* none) and the text that follows the token up to the next blank.
Line(tok, val) == [ tok |-> tok, val |-> val ]

PingStdouts ==
    { <<>>,
      << Line("", <<>>) >>,
      << Line("time=", <<"2", "3">>) >>,
      << Line("time=", <<"2", "3", "m", "s">>) >>,
      << Line("time<", <<"1", "m", "s">>) >>,
      << Line("time=", <<"0">>) >>,
      << Line("time=", <<>>) >>,
      << Line("time=", <<"x">>) >>,
      << Line("time=", <<"7">>), Line("", <<>>), Line("time=", <<"9">>) >>,
      << Line("time=", <<"7">>), Line("time<", <<"x">>) >> }

\* subprocess.run(cmd, check=False) returns returncode, stdout and stderr, or
\* raises (binary missing, permission).
PingOutcomes ==
    [ exc : {NoExc}, returncode : {0}, stdout : PingStdouts, stderr : {""} ]
        \cup [ exc : {NoExc}, returncode : {1, 2}, stdout : {<<>>},
               stderr : {"", "ping: unknown host"} ]
        \cup [ exc : { Exc("FileNotFoundError", "[Errno 2] No such file: 'ping'"),
                       Exc("PermissionError", "[Errno 13] Permission denied: 'ping'") },
               returncode : {0}, stdout : {<<>>}, stderr : {""} ]

\* Seconds the probe's I/O takes on the wall clock.
ProbeSeconds == {1, 2}

ProbeEnvs ==
    [ connect : ConnectOutcomes, http : HttpOutcomes, ping : PingOutcomes,
      seconds : ProbeSeconds ]

Digits == {"0", "1", "2", "3", "7", "9"}

DigitVal(c) ==
    CASE c = "0" -> 0 [] c = "1" -> 1 [] c = "2" -> 2 [] c = "3" -> 3
      [] c = "7" -> 7 [] c = "9" -> 9

\* str.replace("ms", ""): every occurrence of "ms" removed, left to right.
RECURSIVE ReplaceMs(_)
ReplaceMs(s) ==
    IF Len(s) = 0 THEN <<>>
    ELSE IF Len(s) >= 2 /\ s[1] = "m" /\ s[2] = "s"
         THEN ReplaceMs(SubSeq(s, 3, Len(s)))
         ELSE <<s[1]>> \o ReplaceMs(Tail(s))

RECURSIVE DecimalValue(_)
DecimalValue(s) ==
    IF Len(s) = 0 THEN 0
    ELSE 10 * DecimalValue(SubSeq(s, 1, Len(s) - 1)) + DigitVal(s[Len(s)])

\* float(text): the value of a run of decimal digits, ValueError otherwise.
Float(s) ==
    IF Len(s) > 0 /\ \A k \in 1..Len(s) : s[k] \in Digits
    THEN [ exc |-> NoExc, value |-> DecimalValue(s) ]
    ELSE [ exc |-> Exc("ValueError", "could not convert string to float"), value |-> 0 ]

\* Lines 189-190 for a line that holds a token: split()[0] raises IndexError
\* when nothing follows the token, float() raises ValueError on a non-number.
ParseTimePart(line) ==
    IF Len(line.val) = 0
    THEN [ exc |-> Exc("IndexError", "list index out of range"), value |-> 0 ]
    ELSE Float(ReplaceMs(line.val))

\* Line 191: the exceptions the parse swallows.
ParseHandler == {"IndexError", "ValueError"}

\* Lines 170, 186-192: response_time starts at 0.0; every line with a token
\* that parses overwrites it (the last one wins), a line whose parse raises one
\* of ParseHandler leaves it unchanged.
RECURSIVE ParsedResponseTime(_)
ParsedResponseTime(out) ==
    IF Len(out) = 0 THEN 0
    ELSE LET line == out[Len(out)]
             before == ParsedResponseTime(SubSeq(out, 1, Len(out) - 1))
         IN  IF line.tok = "" THEN before
             ELSE LET r == ParseTimePart(line)
                  IN  IF r.exc = NoExc THEN r.value ELSE before

\* The dictionary a probe returns. `exc` is NoExc when the call returns and
\* the exception when it raises instead; `io` is the I/O the call performed.
ProbeResult(success, response_time, error, io) ==
    [ exc |-> NoExc, success |-> success, response_time |-> response_time,
      error |-> error, io |-> io ]

ProbeRaises(e, io) ==
    [ exc |-> e, success |-> FALSE, response_time |-> 0, error |-> "", io |-> io ]

\* Line 195: the handler around the ping utility's invocation.
SystemPingHandler == {"Exception"}

\* system_ping without lines 199-201: the parsed value is reported as it is.
system_ping_without_fallback(ping, seconds) ==
    IF ping.exc # NoExc /\ ~Catches(SystemPingHandler, ping.exc)
    THEN ProbeRaises(ping.exc, "ping")
    ELSE LET success == ping.exc = NoExc /\ ping.returncode = 0
             error_msg ==
                 IF ping.exc # NoExc THEN ping.exc.text
                 ELSE IF success THEN ""
                 ELSE IF ping.stderr # "" THEN ping.stderr ELSE "Ping failed"
             parsed == IF success THEN ParsedResponseTime(ping.stdout) ELSE 0
         IN  ProbeResult(success, parsed, error_msg, "ping")

\* Pinger.system_ping, lines 167-208.
system_ping(ping, seconds) ==
    IF ping.exc # NoExc /\ ~Catches(SystemPingHandler, ping.exc)
    THEN ProbeRaises(ping.exc, "ping")
    ELSE LET success == ping.exc = NoExc /\ ping.returncode = 0
             error_msg ==
                 IF ping.exc # NoExc THEN ping.exc.text
                 ELSE IF success THEN ""
                 ELSE IF ping.stderr # "" THEN ping.stderr ELSE "Ping failed"
             parsed == IF success THEN ParsedResponseTime(ping.stdout) ELSE 0
             response_time == IF parsed = 0 THEN seconds * 1000 ELSE parsed
         IN  ProbeResult(success, response_time, error_msg, "ping")

\* A handler that catches socket errors only.
PingOnceHandlerNarrow == {"OSError"}

\* Line 244: the handler around the socket and HTTP probes.
PingOnceHandler == {"Exception"}

\* Lines 244-255: what ping_once does with the outcome of its try body.
PingOnceReturn(e, success, error_msg, seconds, io) ==
    IF e = NoExc THEN ProbeResult(success, seconds * 1000, error_msg, io)
    ELSE IF Catches(PingOnceHandler, e)
         THEN ProbeResult(FALSE, seconds * 1000, e.text, io)
         ELSE ProbeRaises(e, io)

\* Success for the 2xx statuses only.
HttpSuccessOnly2xx(status) == 200 <= status /\ status < 300

\* Line 233.
HttpSuccess(status) == 200 <= status /\ status < 400

\* Pinger.ping_once, lines 226-235: the HTTP HEAD probe.
http_probe(http, seconds) ==
    PingOnceReturn(http.exc, HttpSuccess(http.status),
                   IF HttpSuccess(http.status) THEN ""
                   ELSE "HTTP status: " \o ToString(http.status),
                   seconds, "HEAD")

\* Pinger.ping_once, lines 239-243: the TCP connect probe to port 80.
tcp_probe(connect, seconds) ==
    PingOnceReturn(connect, TRUE, "", seconds, "connect")

\* The else branch of line 236 missing: any other scheme is tried over TCP.
unsupported_protocol_connects(seconds) ==
    PingOnceReturn(NoExc, TRUE, "", seconds, "connect")

\* Pinger.ping_once, lines 236-237.
unsupported_protocol(seconds) ==
    PingOnceReturn(NoExc, FALSE, "Unsupported protocol", seconds, "")

\* The selection with `if self.packet_size:` in place of `is not None`.
StrategyTruthy(psize, isurl, proto) ==
    IF TruthyInt(psize) THEN "system_ping"
    ELSE IF isurl
         THEN IF proto = S_http \/ proto = S_https THEN "http" ELSE "unsupported"
         ELSE "tcp"

\* Lines 218, 226, 227: the probe strategy a configuration selects.
Strategy(psize, isurl, proto) ==
    IF ~IsNone(psize) THEN "system_ping"
    ELSE IF isurl
         THEN IF proto = S_http \/ proto = S_https THEN "http" ELSE "unsupported"
         ELSE "tcp"

\* Pinger.ping_once, lines 210-255.
ping_once(psize, isurl, proto, env) ==
    LET k == Strategy(psize, isurl, proto)
    IN  CASE k = "system_ping" -> system_ping(env.ping, env.seconds)
          [] k = "http" -> http_probe(env.http, env.seconds)
          [] k = "unsupported" -> unsupported_protocol(env.seconds)
          [] k = "tcp" -> tcp_probe(env.connect, env.seconds)

(***************************************************************************)
(* Hooks.                                                                  *)
(***************************************************************************)
\* subprocess.run(..., shell=True, check=True) returns on exit status 0 and
\* raises CalledProcessError on any other, or OSError when no process can be
\* spawned.
RunOutcomes ==
    { NoExc,
      Exc("CalledProcessError", "returned non-zero exit status 1"),
      Exc("OSError", "[Errno 11] Resource temporarily unavailable") }

\* os.chmod(path, 0o755) returns or raises.
ChmodOutcomes ==
    { NoExc, Exc("PermissionError", "[Errno 1] Operation not permitted") }

\* What the file system and the shell answer to one hook.
HookEnvs == [ exists : BOOLEAN, chmod : ChmodOutcomes, run : RunOutcomes ]

\* What a hook call yields: the string it returns, or the exception it raises;
\* `did` lists the side effects it performed.
HookReturn(value, did) == [ exc |-> NoExc, value |-> value, did |-> did ]

HookRaises(e, did) == [ exc |-> e, value |-> "", did |-> did ]

\* The hook runners without their except clause.
HookHandlerMissing == {}

\* Lines 115 and 137: the handler of both hook runners.
HookHandler == {"CalledProcessError"}

\* Pinger.execute_shell_command, lines 103-116.
execute_shell_command(env) ==
    IF env.run = NoExc THEN HookReturn("stdout", {"spawn"})
    ELSE IF Catches(HookHandler, env.run)
         THEN HookReturn("Command failed: stderr", {"spawn"})
         ELSE HookRaises(env.run, {"spawn"})

\* execute_shell_script without the test of line 120.
execute_shell_script_unchecked(env) ==
    IF env.chmod # NoExc
    THEN IF Catches(HookHandler, env.chmod)
         THEN HookReturn("Script execution failed: stderr", {"chmod"})
         ELSE HookRaises(env.chmod, {"chmod"})
    ELSE IF env.run = NoExc THEN HookReturn("stdout", {"chmod", "spawn"})
    ELSE IF Catches(HookHandler, env.run)
         THEN HookReturn("Script execution failed: stderr", {"chmod", "spawn"})
         ELSE HookRaises(env.run, {"chmod", "spawn"})

\* Pinger.execute_shell_script, lines 118-138.
execute_shell_script(env) ==
    IF ~env.exists THEN HookReturn("Script not found", {})
    ELSE IF env.chmod # NoExc
         THEN IF Catches(HookHandler, env.chmod)
              THEN HookReturn("Script execution failed: stderr", {"chmod"})
              ELSE HookRaises(env.chmod, {"chmod"})
         ELSE IF env.run = NoExc THEN HookReturn("stdout", {"chmod", "spawn"})
         ELSE IF Catches(HookHandler, env.run)
              THEN HookReturn("Script execution failed: stderr", {"chmod", "spawn"})
              ELSE HookRaises(env.run, {"chmod", "spawn"})

\* Everything a call of execute_shell_command can yield.
CommandOutcomes == { execute_shell_command(env) : env \in HookEnvs }

\* Everything a call of execute_shell_script can yield.
ScriptOutcomes == { execute_shell_script(env) : env \in HookEnvs }

(***************************************************************************)
(* The state of one Pinger and of one call of Pinger.start.               *)
(***************************************************************************)
VARIABLES
    target, interval, max_failures, verbose,          \* configuration
    success_cmd, failure_cmd, success_script, failure_script,
    packet_size, is_url, protocol,
    duration,                                         \* argument of start
    consecutive_failures, total_pings, successful_pings, response_times,
    start_time, result,                               \* locals of start
    pc,                                               \* position in start
    pending,                                          \* exception in flight
    now,                                              \* wall clock, seconds
    history,                                          \* results ping_once returned
    hook_calls,                                       \* <<tick, hook>> of every hook run
    printed,                                          \* ticks whose result line was printed
    left_by,                                          \* how the loop was left
    left_at,                                          \* the position it was left from
    alerts,                                           \* ticks whose ALERT was printed
    summaries,                                        \* summaries printed
    last_env,                                         \* what the last direct probe met
    tick_starts,                                      \* the times line 288 was reached
    sleep_starts,                                     \* the times line 343 was reached
    results,                                          \* what a server test stored
    hook_env,                                         \* what the last direct hook call met
    hook_result,                                      \* what that call yielded
    is_running,                                       \* PingerWorker.is_running
    signals,                                          \* signals the worker emitted
    start_button,                                     \* the Start button is enabled
    stop_button,                                      \* the Stop button is enabled
    gui,                                              \* position of the GUI thread
    posted,                                           \* finished_signal deliveries queued
    orphans,                                          \* running workers the GUI lost
    started                                           \* workers started so far

config_vars ==
    << target, interval, max_failures, verbose, success_cmd, failure_cmd,
       success_script, failure_script, packet_size, is_url, protocol, duration >>

counter_vars ==
    << consecutive_failures, total_pings, successful_pings, response_times >>

\* The state of direct hook calls.
hook_vars == << hook_env, hook_result >>

\* The state of the GUI worker thread.
gui_vars ==
    << is_running, signals, start_button, stop_button, gui, posted, orphans,
       started >>

\* The state of the main window that only the GUI thread writes.
window_vars == << start_button, stop_button, gui, orphans, started >>

\* What the loop of Pinger.start never touches.
side_vars == << results, hook_vars, gui_vars >>

vars ==
    << config_vars, counter_vars, start_time, result, pc, pending, now, history,
       hook_calls, printed, left_by, left_at, alerts, summaries, last_env,
       tick_starts, sleep_starts, side_vars >>

\* What the loop's bookkeeping steps leave alone.
ghost_vars ==
    << history, hook_calls, printed, left_by, left_at, alerts, summaries, last_env,
       tick_starts, sleep_starts >>

\* The most ticks one run is followed for.
MaxTicks == 3

\* The configurations explored.
MaxFailuresValues == {0, 1, 2}

Intervals == {-1, 2}

Durations == {None, Some(0), Some(2)}

PacketSizes == {None, Some(0), Some(56)}

Commands == {None, Some("cmd")}

Scripts == {None, Some("hook.sh")}

LoopTargets == {T_host, T_ftp}

NoResult == ProbeResult(FALSE, 0, "", "")

\* No hook has been called directly.
NoHookEnv == [ exists |-> FALSE, chmod |-> NoExc, run |-> NoExc ]

NoHookResult == HookReturn("", {})

NoEnv ==
    [ connect |-> NoExc, http |-> [ exc |-> NoExc, status |-> 200 ],
      ping |-> [ exc |-> NoExc, returncode |-> 0, stdout |-> <<>>, stderr |-> "" ],
      seconds |-> 1 ]

\* Pinger.__init__, lines 57-94, for one choice of the arguments.
Construct(t, i, mf, v, sc, fc, ss, fs, ps) ==
    /\ target = t
    /\ interval = i
    /\ max_failures = mf
    /\ verbose = v
    /\ success_cmd = sc
    /\ failure_cmd = fc
    /\ success_script = ss
    /\ failure_script = fs
    /\ packet_size = ps
    /\ consecutive_failures = 0
    /\ total_pings = 0
    /\ successful_pings = 0
    /\ response_times = <<>>
    /\ is_url = InitIsUrl(t)
    /\ protocol = InitProtocol(t)

\* The rest of the state when nothing has run yet.
Fresh ==
    /\ start_time = 0
    /\ result = NoResult
    /\ pending = NoExc
    /\ now = 0
    /\ history = <<>>
    /\ hook_calls = <<>>
    /\ printed = {}
    /\ left_by = ""
    /\ left_at = ""
    /\ alerts = {}
    /\ summaries = <<>>
    /\ last_env = NoEnv
    /\ tick_starts = <<>>
    /\ sleep_starts = <<>>
    /\ results = None
    /\ hook_env = NoHookEnv
    /\ hook_result = NoHookResult
    /\ is_running = FALSE
    /\ signals = <<>>
    /\ start_button = FALSE
    /\ stop_button = FALSE
    /\ gui = "idle"
    /\ posted = 0
    /\ orphans = 0
    /\ started = 0

\* A Pinger is constructed and start(duration) has run line 284 at time 0.
Init ==
    /\ \E t \in LoopTargets, i \in Intervals, mf \in MaxFailuresValues,
          v \in BOOLEAN, sc \in Commands, fc \in Commands,
          ss \in Scripts, fs \in Scripts :
            Construct(t, i, mf, v, sc, fc, ss, fs, None)
    /\ duration \in Durations
    /\ Fresh
    /\ pc = "ping"

\* The environments that differ in the field strategy k reads.
EnvsFor(k) ==
    { [ connect |-> c, http |-> h, ping |-> p, seconds |-> d ] :
        c \in IF k = "tcp" THEN ConnectOutcomes ELSE {NoEnv.connect},
        h \in IF k = "http" THEN HttpOutcomes ELSE {NoEnv.http},
        p \in IF k = "system_ping" THEN PingOutcomes ELSE {NoEnv.ping},
        d \in ProbeSeconds }

\* An exception leaves the loop body: control goes to the handlers of start.
Raise(e) ==
    /\ pending' = e
    /\ pc' = "unwind"
    /\ left_by' = e.class
    /\ left_at' = pc

Goto(l) ==
    /\ pc' = l
    /\ UNCHANGED << pending, left_by, left_at >>

\* Line 288: result = self.ping_once().
Ping ==
    /\ pc = "ping"
    /\ Len(history) < MaxTicks
    /\ \E env \in EnvsFor(Strategy(packet_size, is_url, protocol)) :
         LET r == ping_once(packet_size, is_url, protocol, env)
         IN  /\ now' = now + env.seconds
             /\ IF r.exc = NoExc
                THEN /\ result' = r
                     /\ history' = Append(history, [ success |-> r.success,
                                                    response_time |-> r.response_time ])
                     /\ Goto("count")
                ELSE /\ Raise(r.exc)
                     /\ UNCHANGED << result, history >>
    /\ tick_starts' = Append(tick_starts, now)
    /\ UNCHANGED << config_vars, counter_vars, start_time, hook_calls, printed,
                    alerts, summaries, last_env, sleep_starts,
                    side_vars >>

\* Lines 289 and 291: self.total_pings += 1, then the branch on the result.
Count ==
    /\ pc = "count"
    /\ total_pings' = total_pings + 1
    /\ Goto(IF result.success THEN "succ_inc" ELSE "fail_inc")
    /\ UNCHANGED << config_vars, consecutive_failures, successful_pings, response_times,
                    start_time, result, now, history, hook_calls, printed, alerts,
                    summaries, last_env,
                    tick_starts, sleep_starts, side_vars >>

\* Line 292: self.successful_pings += 1.
SuccInc ==
    /\ pc = "succ_inc"
    /\ successful_pings' = successful_pings + 1
    /\ Goto("reset_streak")
    /\ UNCHANGED << config_vars, consecutive_failures, total_pings, response_times,
                    start_time, result, now, history, hook_calls, printed, alerts,
                    summaries, last_env,
                    tick_starts, sleep_starts, side_vars >>

\* The success branch without its reset of consecutive_failures.
ResetStreakSkipped ==
    /\ pc = "reset_streak"
    /\ Goto("append_rt")
    /\ UNCHANGED << config_vars, counter_vars, start_time, result, now, history,
                    hook_calls, printed, alerts, summaries, last_env,
                    tick_starts, sleep_starts, side_vars >>

\* Line 293: self.consecutive_failures = 0.
ResetStreak ==
    /\ pc = "reset_streak"
    /\ consecutive_failures' = 0
    /\ Goto("append_rt")
    /\ UNCHANGED << config_vars, total_pings, successful_pings, response_times,
                    start_time, result, now, history, hook_calls, printed, alerts,
                    summaries, last_env,
                    tick_starts, sleep_starts, side_vars >>

\* Line 294: self.response_times.append(result["response_time"]).
AppendResponseTime ==
    /\ pc = "append_rt"
    /\ response_times' = Append(response_times, result.response_time)
    /\ Goto("success_cmd")
    /\ UNCHANGED << config_vars, consecutive_failures, total_pings, successful_pings,
                    start_time, result, now, history, hook_calls, printed, alerts,
                    summaries, last_env,
                    tick_starts, sleep_starts, side_vars >>

\* The failure branch with `= 1` in place of `+= 1`.
FailIncSetsOne ==
    /\ pc = "fail_inc"
    /\ consecutive_failures' = 1
    /\ Goto("failure_cmd")
    /\ UNCHANGED << config_vars, total_pings, successful_pings, response_times,
                    start_time, result, now, history, hook_calls, printed, alerts,
                    summaries, last_env,
                    tick_starts, sleep_starts, side_vars >>

\* Line 309: self.consecutive_failures += 1.
FailInc ==
    /\ pc = "fail_inc"
    /\ consecutive_failures' = consecutive_failures + 1
    /\ Goto("failure_cmd")
    /\ UNCHANGED << config_vars, total_pings, successful_pings, response_times,
                    start_time, result, now, history, hook_calls, printed, alerts,
                    summaries, last_env,
                    tick_starts, sleep_starts, side_vars >>

\* A hook statement that goes on without having run its hook to the end.
HookStepNotAwaited(here, name, conf, outcomes, next) ==
    /\ pc = here
    /\ Goto(next)
    /\ UNCHANGED << config_vars, counter_vars, start_time, result, now, history,
                    hook_calls, printed, alerts, summaries, last_env,
                    tick_starts, sleep_starts, side_vars >>

\* One `if self.<hook>: ... = self.execute_...(self.<hook>)` statement of the
\* loop: the hook named `name`, configured as `conf`, whose call can yield any
\* of `outcomes`, at position `here` and followed by position `next`.
HookStep(here, name, conf, outcomes, next) ==
    /\ pc = here
    /\ IF TruthyStr(conf)
       THEN \E r \in outcomes :
              /\ hook_calls' = Append(hook_calls, << total_pings, name >>)
              /\ IF r.exc = NoExc THEN Goto(next) ELSE Raise(r.exc)
       ELSE /\ Goto(next)
            /\ UNCHANGED hook_calls
    /\ UNCHANGED << config_vars, counter_vars, start_time, result, now, history,
                    printed, alerts, summaries, last_env,
                    tick_starts, sleep_starts, side_vars >>

\* Lines 299-302.
SuccessCmd ==
    HookStep("success_cmd", "success_cmd", success_cmd, CommandOutcomes,
             "success_script")

\* Lines 304-307.
SuccessScript ==
    HookStep("success_script", "success_script", success_script, ScriptOutcomes,
             "print")

\* Lines 314-317.
FailureCmd ==
    HookStep("failure_cmd", "failure_cmd", failure_cmd, CommandOutcomes,
             "failure_script")

\* Lines 319-322.
FailureScript ==
    HookStep("failure_script", "failure_script", failure_script, ScriptOutcomes,
             "print")

\* The result line printed on every tick, without the test of line 326.
PrintResultAlways ==
    /\ pc = "print"
    /\ printed' = printed \cup {total_pings}
    /\ Goto("alert")
    /\ UNCHANGED << config_vars, counter_vars, start_time, result, now, history,
                    hook_calls, alerts, summaries, last_env,
                    tick_starts, sleep_starts, side_vars >>

\* Lines 325-331: the result line is printed when verbose or on a failure.
PrintResult ==
    /\ pc = "print"
    /\ printed' = IF verbose \/ ~result.success
                  THEN printed \cup {total_pings} ELSE printed
    /\ Goto("alert")
    /\ UNCHANGED << config_vars, counter_vars, start_time, result, now, history,
                    hook_calls, alerts, summaries, last_env,
                    tick_starts, sleep_starts, side_vars >>

\* The alert condition with `==` in place of `>=`.
AlertConditionExact(failures, threshold) == failures = threshold

\* Line 334: the alert condition.
AlertCondition(failures, threshold) == failures >= threshold

\* An alert that, once raised, is reported on every later tick of the run.
AlertCheckLatched ==
    /\ pc = "alert"
    /\ alerts' = IF AlertCondition(consecutive_failures, max_failures) \/ alerts # {}
                 THEN alerts \cup {total_pings} ELSE alerts
    /\ Goto("duration")
    /\ UNCHANGED << config_vars, counter_vars, start_time, result, now, history,
                    hook_calls, printed, summaries, last_env,
                    tick_starts, sleep_starts, side_vars >>

\* Lines 333-336: the ALERT lines are printed when the condition holds.
AlertCheck ==
    /\ pc = "alert"
    /\ alerts' = IF AlertCondition(consecutive_failures, max_failures)
                 THEN alerts \cup {total_pings} ELSE alerts
    /\ Goto("duration")
    /\ UNCHANGED << config_vars, counter_vars, start_time, result, now, history,
                    hook_calls, printed, summaries, last_env,
                    tick_starts, sleep_starts, side_vars >>

\* Line 339: the duration limit is reached.
DurationReached(d, elapsed) == TruthyInt(d) /\ elapsed >= d[1]

\* The duration test placed after the sleep: the loop sleeps once more
\* before it breaks.
DurationCheckAfterSleep ==
    /\ pc = "duration"
    /\ IF DurationReached(duration, now - start_time)
       THEN /\ pc' = "unwind"
            /\ left_by' = "break"
            /\ left_at' = pc
            /\ sleep_starts' = Append(sleep_starts, now)
            /\ UNCHANGED pending
       ELSE /\ Goto("sleep")
            /\ UNCHANGED sleep_starts
    /\ UNCHANGED << config_vars, counter_vars, start_time, result, now, history,
                    hook_calls, printed, alerts, summaries, last_env,
                    tick_starts, side_vars >>

\* Lines 338-340: break when the duration limit is reached.
DurationCheck ==
    /\ pc = "duration"
    /\ IF DurationReached(duration, now - start_time)
       THEN /\ pc' = "unwind"
            /\ left_by' = "break"
            /\ left_at' = pc
            /\ UNCHANGED pending
       ELSE Goto("sleep")
    /\ UNCHANGED << config_vars, counter_vars, start_time, result, now, history,
                    hook_calls, printed, alerts, summaries, last_env,
                    tick_starts, sleep_starts, side_vars >>

\* Line 343: time.sleep(self.interval) raises ValueError for a negative length.
Sleep ==
    /\ pc = "sleep"
    /\ IF interval < 0
       THEN /\ Raise(Exc("ValueError", "sleep length must be non-negative"))
            /\ UNCHANGED now
       ELSE /\ now' = now + interval
            /\ Goto("ping")
    /\ sleep_starts' = Append(sleep_starts, now)
    /\ UNCHANGED << config_vars, counter_vars, start_time, result, history,
                    hook_calls, printed, alerts, summaries, last_env, tick_starts,
                    side_vars >>

\* The positions of the four hook statements.
HookPcs == {"success_cmd", "success_script", "failure_cmd", "failure_script"}

\* The positions inside the try block of start (lines 287-343).
LoopPcs ==
    { "ping", "count", "succ_inc", "reset_streak", "append_rt", "success_cmd",
      "success_script", "fail_inc", "failure_cmd", "failure_script", "print",
      "alert", "duration", "sleep" }

\* Ctrl+C: Python raises KeyboardInterrupt in the main thread between any two
\* statements of the loop, or inside a blocking call.
KeyboardInterrupt ==
    /\ pc \in LoopPcs
    /\ Raise(Exc("KeyboardInterrupt", ""))
    /\ UNCHANGED << config_vars, counter_vars, start_time, result, now, history,
                    hook_calls, printed, alerts, summaries, last_env,
                    tick_starts, sleep_starts, side_vars >>

Sum(s) == LET RECURSIVE Go(_)
              Go(k) == IF k = 0 THEN 0 ELSE s[k] + Go(k - 1)
          IN  Go(Len(s))

\* The summary with an empty run rated as fully successful.
SummaryOfNothingPerfect(total, successful, times) ==
    [ total |-> total,
      successful |-> successful,
      failed |-> total - successful,
      success_rate |-> IF total > 0 THEN (successful * 100) \div total ELSE 100,
      avg_response |-> IF Len(times) > 0 THEN Sum(times) \div Len(times) ELSE 0 ]

\* Pinger._print_summary, lines 350-368: the figures it prints (rates and
\* averages rounded down to whole numbers).
Summary(total, successful, times) ==
    [ total |-> total,
      successful |-> successful,
      failed |-> total - successful,
      success_rate |-> IF total > 0 THEN (successful * 100) \div total ELSE 0,
      avg_response |-> IF Len(times) > 0 THEN Sum(times) \div Len(times) ELSE 0 ]

\* Line 345: the handler of start.
StartHandler == {"KeyboardInterrupt"}

\* The summary printed after the try statement instead of in a finally clause.
UnwindWithoutFinally ==
    /\ pc = "unwind"
    /\ IF pending = NoExc \/ Catches(StartHandler, pending)
       THEN /\ pending' = NoExc
            /\ pc' = "returned"
            /\ summaries' = Append(summaries,
                   Summary(total_pings, successful_pings, response_times))
       ELSE /\ pc' = "raised"
            /\ UNCHANGED << pending, summaries >>
    /\ UNCHANGED << config_vars, counter_vars, start_time, result, now, history,
                    hook_calls, printed, left_by, left_at, alerts, last_env,
                    tick_starts, sleep_starts, side_vars >>

\* Lines 345-348: the except clause, then the finally clause; start returns,
\* or the exception no clause caught goes on to the caller.
Unwind ==
    /\ pc = "unwind"
    /\ summaries' = Append(summaries,
                           Summary(total_pings, successful_pings, response_times))
    /\ IF pending = NoExc \/ Catches(StartHandler, pending)
       THEN /\ pending' = NoExc
            /\ pc' = "returned"
       ELSE /\ pc' = "raised"
            /\ UNCHANGED pending
    /\ UNCHANGED << config_vars, counter_vars, start_time, result, now, history,
                    hook_calls, printed, left_by, left_at, alerts, last_env,
                    tick_starts, sleep_starts, side_vars >>

\* min(s) and max(s) of a non-empty list.
MinOf(s) == CHOOSE x \in { s[i] : i \in 1..Len(s) } : \A i \in 1..Len(s) : x <= s[i]

MaxOf(s) == CHOOSE x \in { s[i] : i \in 1..Len(s) } : \A i \in 1..Len(s) : x >= s[i]

\* YouTubeSetup.test_all_servers, lines 236-239: the figures stored for one
\* server (rates and averages rounded down to whole numbers).
ServerResult(times, successful, total) ==
    [ avg_response |-> IF Len(times) > 0 THEN Sum(times) \div Len(times) ELSE 0,
      min_response |-> IF Len(times) > 0 THEN MinOf(times) ELSE 0,
      max_response |-> IF Len(times) > 0 THEN MaxOf(times) ELSE 0,
      success_rate |-> IF total > 0 THEN (successful * 100) \div total ELSE 0 ]

\* YouTubeSetup.test_all_servers, lines 233-240: pinger.start has returned and
\* the caller stores the figures of the run.
StoreResults ==
    /\ pc = "returned"
    /\ results' = Some(ServerResult(response_times, successful_pings, total_pings))
    /\ pc' = "stored"
    /\ UNCHANGED << config_vars, counter_vars, start_time, result, pending, now,
                    ghost_vars, hook_vars, gui_vars >>

Next ==
    \/ Ping
    \/ Count
    \/ SuccInc
    \/ ResetStreak
    \/ AppendResponseTime
    \/ SuccessCmd
    \/ SuccessScript
    \/ FailInc
    \/ FailureCmd
    \/ FailureScript
    \/ PrintResult
    \/ AlertCheck
    \/ DurationCheck
    \/ Sleep
    \/ KeyboardInterrupt
    \/ Unwind
    \/ StoreResults

Spec == Init /\ [][Next]_vars

(***************************************************************************)
(* A Pinger whose ping_once is called directly, as the GUI worker and the  *)
(* server tests call it, with every target shape and packet size.          *)
(***************************************************************************)
InitProbe ==
    /\ \E t \in Targets, ps \in PacketSizes :
          Construct(t, 2, 2, FALSE, None, None, None, None, ps)
    /\ duration = None
    /\ Fresh
    /\ pc = "idle"

\* One call of ping_once from outside the loop of start.
PingOnceCall ==
    /\ pc \in {"idle", "probed"}
    /\ \E env \in EnvsFor(Strategy(packet_size, is_url, protocol)) :
         /\ result' = ping_once(packet_size, is_url, protocol, env)
         /\ last_env' = env
    /\ pc' = "probed"
    /\ UNCHANGED << config_vars, counter_vars, start_time, pending, now, history,
                    hook_calls, printed, left_by, left_at, alerts, summaries,
                    tick_starts, sleep_starts, side_vars >>

NextProbe == PingOnceCall

SpecProbe == InitProbe /\ [][NextProbe]_vars

(***************************************************************************)
(* A Pinger whose hook runners are called directly, as the GUI worker      *)
(* calls execute_shell_script, against every answer of the file system     *)
(* and of the shell.                                                       *)
(***************************************************************************)
\* The most direct hook calls that are followed.
MaxCalls == 3

InitHooks ==
    /\ \E sc \in Commands, ss \in Scripts :
          Construct(T_host, 2, 2, FALSE, sc, None, ss, None, None)
    /\ duration = None
    /\ Fresh
    /\ pc = "idle"

\* One direct call of the runner `name` that yields hook_result' in hook_env'.
HookCall(name) ==
    /\ pc \in {"idle", "hooked"}
    /\ Len(hook_calls) < MaxCalls
    /\ hook_calls' = Append(hook_calls, << 0, name >>)
    /\ pc' = "hooked"
    /\ UNCHANGED << config_vars, counter_vars, start_time, result, pending, now,
                    history, printed, left_by, left_at, alerts, summaries, last_env,
                    tick_starts, sleep_starts, results, gui_vars >>

\* self.execute_shell_command(self.success_cmd).
ExecuteShellCommand ==
    /\ TruthyStr(success_cmd)
    /\ \E env \in HookEnvs :
          /\ hook_env' = env
          /\ hook_result' = execute_shell_command(env)
    /\ HookCall("execute_shell_command")

\* self.execute_shell_script(self.success_script).
ExecuteShellScript ==
    /\ TruthyStr(success_script)
    /\ \E env \in HookEnvs :
          /\ hook_env' = env
          /\ hook_result' = execute_shell_script(env)
    /\ HookCall("execute_shell_script")

NextHooks ==
    \/ ExecuteShellCommand
    \/ ExecuteShellScript

SpecHooks == InitHooks /\ [][NextHooks]_vars

(***************************************************************************)
(* The GUI's monitoring loop: PingerWorker.run drives a Pinger from a      *)
(* worker thread while the GUI thread may call PingerWorker.stop.          *)
(***************************************************************************)
\* The most ticks one run of the worker is followed for.
MaxWorkerTicks == 2

\* What no step of the worker touches.
worker_keeps ==
    << config_vars, counter_vars, start_time, pending, printed, left_by, left_at,
       alerts, summaries, last_env, sleep_starts, results, hook_vars,
       window_vars >>

\* ModernPingerGUI.start_pinger, lines 378-417: the Pinger the GUI builds
\* (interval and max_failures within the ranges of their input fields, one
\* command for both outcomes; likewise one script, for a Pinger built by other
\* code) and the worker constructed around it, about to run.
InitWorker ==
    /\ \E t \in LoopTargets, mf \in {1, 2}, cmd \in Commands, script \in Scripts :
            Construct(t, 2, mf, FALSE, cmd, cmd, script, script, None)
    /\ duration = None
    /\ start_time = 0
    /\ result = NoResult
    /\ pending = NoExc
    /\ now = 0
    /\ history = <<>>
    /\ hook_calls = <<>>
    /\ printed = {}
    /\ left_by = ""
    /\ left_at = ""
    /\ alerts = {}
    /\ summaries = <<>>
    /\ last_env = NoEnv
    /\ tick_starts = <<>>
    /\ sleep_starts = <<>>
    /\ results = None
    /\ hook_env = NoHookEnv
    /\ hook_result = NoHookResult
    /\ is_running = TRUE
    /\ signals = <<>>
    /\ start_button = FALSE
    /\ stop_button = TRUE
    /\ gui = "idle"
    /\ posted = 0
    /\ orphans = 0
    /\ started = 1
    /\ pc = "w_start"

\* output_signal.emit(...) or finished_signal.emit().
Emit(what) == signals' = Append(signals, what)

\* Line 24: the worker announces itself.
WorkerStart ==
    /\ pc = "w_start"
    /\ Emit("Starting pinger")
    /\ pc' = "w_loop"
    /\ UNCHANGED << worker_keeps, posted, result, now, history, hook_calls, tick_starts,
                    is_running >>

\* The loop of run as `while True`: is_running is never read.
WorkerLoopIgnoresStop ==
    /\ pc = "w_loop"
    /\ Len(history) < MaxWorkerTicks
    /\ pc' = "w_ping"
    /\ UNCHANGED << worker_keeps, posted, result, now, history, hook_calls, tick_starts,
                    is_running, signals >>

\* Line 26: while self.is_running.
WorkerLoop ==
    /\ pc = "w_loop"
    /\ IF is_running
       THEN /\ Len(history) < MaxWorkerTicks
            /\ pc' = "w_ping"
       ELSE pc' = "w_finally"
    /\ UNCHANGED << worker_keeps, posted, result, now, history, hook_calls, tick_starts,
                    is_running, signals >>

\* Line 97: the handler around the loop of the worker.
WorkerHandler == {"Exception"}

\* Line 27: result = self.pinger.ping_once().
WorkerPing ==
    /\ pc = "w_ping"
    /\ \E env \in EnvsFor(Strategy(packet_size, is_url, protocol)) :
         LET r == ping_once(packet_size, is_url, protocol, env)
         IN  /\ now' = now + env.seconds
             /\ IF r.exc = NoExc
                THEN /\ result' = r
                     /\ history' = Append(history, [ success |-> r.success,
                                                    response_time |-> r.response_time ])
                     /\ pc' = "w_emit"
                     /\ UNCHANGED signals
                ELSE /\ Catches(WorkerHandler, r.exc)
                     /\ Emit("Error in pinger thread")
                     /\ pc' = "w_finally"
                     /\ UNCHANGED << result, history >>
    /\ tick_starts' = Append(tick_starts, now)
    /\ UNCHANGED << worker_keeps, posted, hook_calls, is_running >>

\* Lines 28-32 and 61-65: the result is shown.
WorkerEmit ==
    /\ pc = "w_emit"
    /\ Emit(IF result.success THEN "Response" ELSE "Failed to ping")
    /\ pc' = "w_cmd"
    /\ UNCHANGED << worker_keeps, posted, result, now, history, hook_calls, tick_starts,
                    is_running >>

\* Line 52: the handler around the worker's own subprocess.run.
WorkerHookHandler == {"Exception"}

\* Lines 35-52 and 68-85: the command of the result's kind is run with
\* check=False: a failing exit status is shown, never raised.
WorkerCmd ==
    /\ pc = "w_cmd"
    /\ LET conf == IF result.success THEN success_cmd ELSE failure_cmd
           name == IF result.success THEN "success_cmd" ELSE "failure_cmd"
       IN  IF TruthyStr(conf)
           THEN \E run \in RunOutcomes :
                  /\ hook_calls' = Append(hook_calls, << Len(history), name >>)
                  /\ run.class \in {"", "CalledProcessError"}
                        \/ Catches(WorkerHookHandler, run)
                  /\ Emit(CASE run = NoExc -> "Command output"
                            [] run.class = "CalledProcessError" -> "Command error"
                            [] OTHER -> "Error executing command")
           ELSE UNCHANGED << hook_calls, signals >>
    /\ pc' = "w_script"
    /\ UNCHANGED << worker_keeps, posted, result, now, history, tick_starts, is_running >>

\* Lines 54-60 and 87-93: the script of the result's kind is run when it is
\* configured and exists.
WorkerScript ==
    /\ pc = "w_script"
    /\ LET conf == IF result.success THEN success_script ELSE failure_script
           name == IF result.success THEN "success_script" ELSE "failure_script"
       IN  IF TruthyStr(conf)
           THEN \E env \in HookEnvs :
                  IF env.exists
                  THEN LET r == execute_shell_script(env)
                       IN  /\ hook_calls' = Append(hook_calls, << Len(history), name >>)
                           /\ r.exc = NoExc \/ Catches(WorkerHookHandler, r.exc)
                           /\ Emit(IF r.exc = NoExc THEN "Script output"
                                   ELSE "Error executing script")
                  ELSE UNCHANGED << hook_calls, signals >>
           ELSE UNCHANGED << hook_calls, signals >>
    /\ pc' = "w_sleep"
    /\ UNCHANGED << worker_keeps, posted, result, now, history, tick_starts, is_running >>

\* Line 96: QThread.msleep(int(self.pinger.interval * 1000)).
WorkerSleep ==
    /\ pc = "w_sleep"
    /\ now' = now + interval
    /\ pc' = "w_loop"
    /\ UNCHANGED << worker_keeps, posted, result, history, hook_calls, tick_starts,
                    is_running, signals >>

\* Lines 99-101: the finally clause of run.
WorkerFinally ==
    /\ pc = "w_finally"
    /\ signals' = signals \o << "Pinger stopped", "finished_signal" >>
    /\ posted' = posted + 1
    /\ pc' = "w_done"
    /\ UNCHANGED << worker_keeps, result, now, history, hook_calls, tick_starts,
                    is_running >>

\* The positions of a running worker.
WorkerPcs ==
    {"w_start", "w_loop", "w_ping", "w_emit", "w_cmd", "w_script", "w_sleep"}

\* PingerWorker.stop, lines 103-104, called from the GUI thread.
Stop ==
    /\ pc \in WorkerPcs
    /\ is_running
    /\ is_running' = FALSE
    /\ UNCHANGED << worker_keeps, posted, result, pc, now, history, hook_calls,
                    tick_starts, signals >>

NextWorker ==
    \/ WorkerStart
    \/ WorkerLoop
    \/ WorkerPing
    \/ WorkerEmit
    \/ WorkerCmd
    \/ WorkerScript
    \/ WorkerSleep
    \/ WorkerFinally
    \/ Stop

SpecWorker == InitWorker /\ [][NextWorker]_vars

\* QThread.isRunning(): run() has been entered and has not returned.
isRunning == pc \in WorkerPcs \cup {"w_finally"}

\* The steps of the worker thread itself.
WorkerThread ==
    \/ WorkerStart
    \/ WorkerLoop
    \/ WorkerPing
    \/ WorkerEmit
    \/ WorkerCmd
    \/ WorkerScript
    \/ WorkerSleep
    \/ WorkerFinally

\* The worker thread is scheduled, and its probe, hooks and sleep return.
SpecWorkerFair == SpecWorker /\ WF_vars(WorkerThread)

(***************************************************************************)
(* The main window: the GUI thread handles Start and Stop clicks and the   *)
(* queued finished_signal of its workers, while the worker thread runs.    *)
(***************************************************************************)
\* The most workers that are started.
MaxStarts == 3

\* ModernPingerGUI.__init__ and init_ui, lines 107-231: no worker, Start
\* enabled, Stop disabled; the input fields hold a target and maybe a command.
InitGui ==
    /\ \E cmd \in Commands : Construct(T_host, 2, 1, FALSE, cmd, cmd, None, None, None)
    /\ duration = None
    /\ start_time = 0
    /\ result = NoResult
    /\ pending = NoExc
    /\ now = 0
    /\ history = <<>>
    /\ hook_calls = <<>>
    /\ printed = {}
    /\ left_by = ""
    /\ left_at = ""
    /\ alerts = {}
    /\ summaries = <<>>
    /\ last_env = NoEnv
    /\ tick_starts = <<>>
    /\ sleep_starts = <<>>
    /\ results = None
    /\ hook_env = NoHookEnv
    /\ hook_result = NoHookResult
    /\ is_running = FALSE
    /\ signals = <<>>
    /\ start_button = TRUE
    /\ stop_button = FALSE
    /\ gui = "idle"
    /\ posted = 0
    /\ orphans = 0
    /\ started = 0
    /\ pc = "w_none"

\* What no click and no signal delivery touches.
gui_keeps ==
    << config_vars, counter_vars, start_time, pending, now, printed, left_by,
       left_at, alerts, summaries, last_env, sleep_starts, results, hook_vars >>

\* ModernPingerGUI.start_pinger, lines 365-423: a click on the enabled Start
\* button builds a Pinger and a new worker, stores it in self.pinger_worker
\* (a worker still running there is no longer referenced), starts it and
\* disables Start.
StartClick ==
    /\ gui = "idle"
    /\ start_button
    /\ started < MaxStarts
    /\ started' = started + 1
    /\ orphans' = IF isRunning THEN orphans + 1 ELSE orphans
    /\ is_running' = TRUE
    /\ pc' = "w_start"
    /\ result' = NoResult
    /\ history' = <<>>
    /\ hook_calls' = <<>>
    /\ tick_starts' = <<>>
    /\ signals' = <<>>
    /\ start_button' = FALSE
    /\ stop_button' = TRUE
    /\ UNCHANGED << gui_keeps, gui, posted >>

\* ModernPingerGUI.stop_pinger, lines 431-434: a click on the enabled Stop
\* button calls stop() and blocks the GUI thread in wait() when the worker
\* is running, and does nothing otherwise.
StopClick ==
    /\ gui = "idle"
    /\ stop_button
    /\ IF pc # "w_none" /\ isRunning
       THEN /\ is_running' = FALSE
            /\ gui' = "waiting"
       ELSE UNCHANGED << is_running, gui >>
    /\ UNCHANGED << gui_keeps, result, pc, history, hook_calls, tick_starts, signals,
                    start_button, stop_button, posted, orphans, started >>

\* ModernPingerGUI.on_pinger_finished, lines 437-439.
on_pinger_finished ==
    /\ start_button' = TRUE
    /\ stop_button' = FALSE

\* Lines 434-435: wait() returns when run() is over, then stop_pinger calls
\* on_pinger_finished itself.
StopWaitReturns ==
    /\ gui = "waiting"
    /\ ~isRunning
    /\ on_pinger_finished
    /\ gui' = "idle"
    /\ UNCHANGED << gui_keeps, result, pc, history, hook_calls, tick_starts, signals,
                    is_running, posted, orphans, started >>

\* Line 418: a finished_signal emitted in a worker thread is queued to the GUI
\* thread, which calls on_pinger_finished when it handles the queued call.
DeliverFinished ==
    /\ gui = "idle"
    /\ posted > 0
    /\ posted' = posted - 1
    /\ on_pinger_finished
    /\ UNCHANGED << gui_keeps, result, pc, history, hook_calls, tick_starts, signals,
                    is_running, gui, orphans, started >>

NextGui ==
    \/ StartClick
    \/ StopClick
    \/ StopWaitReturns
    \/ DeliverFinished
    \/ WorkerThread

SpecGui == InitGui /\ [][NextGui]_vars

(***************************************************************************)
(* Properties.                                                             *)
(***************************************************************************)
\* The number of failures in a row that end at result t of h.
RECURSIVE StreakAt(_, _)
StreakAt(h, t) ==
    IF t = 0 \/ h[t].success THEN 0 ELSE 1 + StreakAt(h, t - 1)

\* The number of successful results among the first n of h.
SuccessesIn(h, n) == Cardinality({ k \in 1..n : h[k].success })

\* The ticks whose alert check (line 334) has certainly been executed.
TicksChecked ==
    IF pc \in {"duration", "sleep", "ping"} THEN 1..Len(history)
    ELSE 1..(Len(history) - 1)

\* The positions at which the counters of the current tick are up to date.
RecordedPcs ==
    { "ping", "success_cmd", "success_script", "failure_cmd", "failure_script",
      "print", "alert", "duration", "sleep" }

\* The configuration respects the documented ranges (section 3 of the spec).
ValidConfig == interval > 0 /\ max_failures >= 1

\* The loop of start has been left and its handlers have run.
Left == pc \in {"returned", "raised"}

\* C1 as stated: with max_failures >= 1, every reported alert is reported on
\* the failure that makes the streak equal to max_failures, never on a later
\* failure of the same streak.
C1_AlertOncePerStreak ==
    max_failures >= 1 =>
        \A t \in alerts : StreakAt(history, t) = max_failures

\* C1 amended: with max_failures >= 1, the alert is reported on a tick exactly
\* when the failure streak ending at that tick is at least max_failures long:
\* first on the max_failures-th failure in a row, and again on every later
\* failure of the same streak.
C1_AlertOnEveryFailureFromThreshold ==
    max_failures >= 1 =>
        /\ \A t \in alerts : StreakAt(history, t) >= max_failures
        /\ \A t \in TicksChecked :
              StreakAt(history, t) >= max_failures => t \in alerts

\* A streak went one failure beyond the threshold and both ticks alerted.
C1_Witness ==
    /\ max_failures = 2
    /\ Len(history) = 3
    /\ StreakAt(history, 3) = 3
    /\ alerts = {2, 3}

\* C2: with max_failures >= 1, an alert is reported on a tick only if that
\* tick's result and the max_failures - 1 results before it are all failures.
C2_AlertOnlyAfterStreak ==
    max_failures >= 1 =>
        \A t \in alerts :
            /\ t >= max_failures
            /\ \A k \in (t - max_failures + 1)..t : ~history[k].success

\* An alert was reported in a run that also had a success and a failure that
\* raised no alert.
C2_Witness ==
    /\ max_failures = 2
    /\ Len(history) = 3
    /\ history[1].success
    /\ alerts = {3}

\* C3: after every completed counter update, consecutive_failures is the
\* number of failed probes since the most recent successful one (0 after a
\* success, one more after each failure), and an alert is reported only on a
\* tick that ends max_failures failures in a row.
C3_ConsecutiveFailuresIsStreak ==
    /\ pc \in RecordedPcs =>
          consecutive_failures = StreakAt(history, Len(history))
    /\ \A t \in alerts : StreakAt(history, t) >= max_failures

\* fail, success, fail: the counter went 1, 0, 1 and no alert was reported.
C3_Witness ==
    /\ pc = "sleep"
    /\ max_failures = 2
    /\ Len(history) = 3
    /\ ~history[1].success /\ history[2].success /\ ~history[3].success
    /\ consecutive_failures = 1
    /\ alerts = {}

\* C4: every final summary reports total == N, 0 <= successful <= total and
\* failed == total - successful, where N is the number of results the loop has
\* counted (line 289) and successful the number of successes among them.
C4_SummaryCountsResults ==
    ValidConfig => \A i \in 1..Len(summaries) :
        LET s == summaries[i]
        IN  /\ s.total <= Len(history)
            /\ s.successful = SuccessesIn(history, s.total)
            /\ 0 <= s.successful /\ s.successful <= s.total
            /\ s.failed = s.total - s.successful

C6_ExitWhenDurationReached ==
    ValidConfig /\ pc = "sleep" => (IsNone(duration) \/ now - start_time < duration[1])

\* C7: the loop is never left during or after a failed tick other than by the
\* duration check or by cancellation.
C7_FailedProbeNeverEndsLoop ==
    ( /\ ValidConfig
      /\ left_by \notin {"", "break", "KeyboardInterrupt"}
      /\ Len(history) > 0
      /\ total_pings = Len(history) )
        => history[Len(history)].success

\* C8: no hook statement ends the loop by an exception of the hook.
C8_HookFailureNeverEndsLoop ==
    ValidConfig /\ left_at \in HookPcs => left_by = "KeyboardInterrupt"

\* The I/O failure the strategy in use met in environment env (NoExc if none).
FailureMet(env) ==
    LET k == Strategy(packet_size, is_url, protocol)
    IN  CASE k = "tcp" -> env.connect
          [] k = "http" -> env.http.exc
          [] k = "system_ping" -> env.ping.exc
          [] OTHER -> NoExc

\* C9: ping_once never raises; a network failure, a non-success status, a
\* failing exit status or a failure to invoke the ping utility is returned as
\* success=false, with the failure's text in error.
C9_PingOnceNeverRaises ==
    pc = "probed" =>
        /\ result.exc = NoExc
        /\ FailureMet(last_env) # NoExc =>
              ~result.success /\ result.error = FailureMet(last_env).text

\* An HTTP probe whose exchange raised http.client.HTTPException.
C9_Witness ==
    /\ pc = "probed"
    /\ Strategy(packet_size, is_url, protocol) = "http"
    /\ last_env.http.exc.class = "HTTPException"
    /\ ~result.success
    /\ result.error = "Remote end closed connection"

\* C10: the I/O a probe performs is decided by the configuration alone: the
\* ping utility when a packet size is set (0 included); otherwise, for a target
\* containing "://", the HEAD request when the scheme is http or https and no
\* I/O but an error result for any other scheme; otherwise the TCP connect.
C10_StrategyFromConfiguration ==
    pc = "probed" =>
        IF ~IsNone(packet_size) THEN result.io = "ping"
        ELSE IF Contains(target, Separator)
             THEN IF UrlScheme(target) \in {S_http, S_https}
                  THEN result.io = "HEAD"
                  ELSE result.io = "" /\ ~result.success /\ result.error # ""
             ELSE result.io = "connect"

\* A URL target with packet size 0 was probed with the ping utility.
C10_Witness ==
    /\ pc = "probed"
    /\ target = T_http
    /\ packet_size = Some(0)
    /\ result.io = "ping"

\* The target holds "://" and the text before it is not the http or https
\* scheme (in any letter case).
OtherScheme(t) == Contains(t, Separator) /\ UrlScheme(t) \notin {S_http, S_https}

\* C11: with no packet size and a target whose scheme is neither http nor
\* https, every call of ping_once returns success=false with a non-empty error
\* and opens no network connection, whatever the network would answer.
C11_UnsupportedSchemeFailsWithoutIO ==
    pc = "probed" /\ IsNone(packet_size) /\ OtherScheme(target) =>
        /\ result.exc = NoExc
        /\ ~result.success
        /\ result.error # ""
        /\ result.io = ""

\* ftp://h was probed without a packet size.
C11_Witness ==
    /\ pc = "probed"
    /\ target = T_ftp
    /\ IsNone(packet_size)
    /\ result.error = "Unsupported protocol"
    /\ result.io = ""

\* The hooks configured for the outcome of result t of h.
HooksFor(h, t) ==
    IF h[t].success
    THEN { n \in {"success_cmd"} : TruthyStr(success_cmd) }
           \cup { n \in {"success_script"} : TruthyStr(success_script) }
    ELSE { n \in {"failure_cmd"} : TruthyStr(failure_cmd) }
           \cup { n \in {"failure_script"} : TruthyStr(failure_script) }

\* The hooks that have run on tick t.
HooksRunOn(t) ==
    { hook_calls[i][2] : i \in { j \in 1..Len(hook_calls) : hook_calls[j][1] = t } }

\* C12: a cancelled loop is left at a tick boundary only: every result the
\* probe returned has been counted in total_pings, successful_pings and
\* response_times, and the hooks configured for the last result have run, when
\* the final summary is printed.
C12_CancelOnlyAtTickBoundary ==
    ( /\ ValidConfig
      /\ pc = "returned"
      /\ left_by = "KeyboardInterrupt" )
        => /\ left_at \in {"ping", "sleep"}
           /\ total_pings = Len(history)
           /\ successful_pings = SuccessesIn(history, Len(history))
           /\ Len(response_times) = successful_pings
           /\ summaries[1].successful = SuccessesIn(history, summaries[1].total)
           /\ Len(history) > 0 =>
                 HooksFor(history, Len(history)) \subseteq HooksRunOn(Len(history))

Max(a, b) == IF a >= b THEN a ELSE b

\* C13: every tick after the first begins `interval` after the start of the
\* tick before it, or as soon as that tick's work is over when the work took
\* longer than interval.
C13_TickIntervalAfterTickStart ==
    ValidConfig =>
        \A k \in 2..Len(tick_starts) :
            tick_starts[k] = Max(tick_starts[k - 1] + interval, sleep_starts[k - 1])

\* C14: a Pinger whose interval is <= 0 is rejected at construction: its loop
\* never runs, no probe is performed and nothing is counted.
C14_InvalidIntervalRejected ==
    interval <= 0 =>
        /\ Len(tick_starts) = 0
        /\ Len(history) = 0
        /\ total_pings = 0

\* C15: a summary computed with total_pings == 0 has success rate 0, and one
\* computed with no recorded success has average latency 0, in the summary
\* Pinger._print_summary prints and in the figures test_all_servers stores;
\* both are computed without dividing by zero.
C15_EmptySummaryIsZero ==
    /\ \A i \in 1..Len(summaries) :
          /\ summaries[i].total = 0 => summaries[i].success_rate = 0
          /\ summaries[i].successful = 0 => summaries[i].avg_response = 0
    /\ ~IsNone(results) =>
          /\ total_pings = 0 => results[1].success_rate = 0
          /\ successful_pings = 0 => results[1].avg_response = 0

\* A run cancelled before its first result was counted: the summary was
\* printed and the figures were stored with nothing recorded.
C15_Witness ==
    /\ pc = "stored"
    /\ left_by = "KeyboardInterrupt"
    /\ total_pings = 0
    /\ Len(history) = 1
    /\ summaries = << Summary(0, 0, <<>>) >>
    /\ results = Some(ServerResult(<<>>, 0, 0))

\* The values of the timing tokens of output `out` that are numbers.
NumericTimes(out) ==
    { ParseTimePart(out[i]).value :
        i \in { j \in 1..Len(out) :
                  out[j].tok # "" /\ ParseTimePart(out[j]).exc = NoExc } }

\* The ping utility was run for the last probe and exited with status 0.
PingExitedWithSuccess ==
    /\ pc = "probed"
    /\ ~IsNone(packet_size)
    /\ last_env.ping.exc = NoExc
    /\ last_env.ping.returncode = 0

\* C16: when the ping utility exits successfully and its output holds a timing
\* token followed by a number v (with or without the ms suffix), the latency
\* system_ping reports is such a v, whatever the number is (0 included).
C16_ParsedLatencyIsReported ==
    PingExitedWithSuccess /\ NumericTimes(last_env.ping.stdout) # {} =>
        result.response_time \in NumericTimes(last_env.ping.stdout)

\* C17: when the utility could not be run, or exited with failure, or its
\* output holds no timing token whose value is a number, the latency
\* system_ping reports is the wall-clock time of the whole invocation.
C17_FallbackToElapsed ==
    ( /\ pc = "probed"
      /\ ~IsNone(packet_size)
      /\ \/ ~PingExitedWithSuccess
         \/ NumericTimes(last_env.ping.stdout) = {} )
        => /\ result.exc = NoExc
           /\ result.response_time = last_env.seconds * 1000

\* The utility printed time=x: the value is no number and the elapsed time of
\* two seconds was reported.
C17_Witness ==
    /\ PingExitedWithSuccess
    /\ last_env.ping.stdout = << Line("time=", <<"x">>) >>
    /\ last_env.seconds = 2
    /\ result.success
    /\ result.response_time = 2000

\* The last direct hook call was a call of execute_shell_script.
ScriptWasCalled ==
    /\ pc = "hooked"
    /\ hook_calls[Len(hook_calls)][2] = "execute_shell_script"

\* C18: execute_shell_script called with a path that does not exist returns
\* the script-not-found message and does nothing else: no chmod, no process.
C18_MissingScriptDoesNothing ==
    ScriptWasCalled /\ ~hook_env.exists =>
        /\ hook_result.exc = NoExc
        /\ hook_result.value = "Script not found"
        /\ hook_result.did = {}

\* The script was missing where chmod and the spawn would both have failed.
C18_Witness ==
    /\ ScriptWasCalled
    /\ ~hook_env.exists
    /\ hook_env.chmod # NoExc
    /\ hook_env.run.class = "OSError"
    /\ hook_result = HookReturn("Script not found", {})

\* The positions of a tick at which its hooks are still to run.
BeforeHooksDone ==
    {"count", "succ_inc", "reset_streak", "append_rt", "fail_inc"} \cup HookPcs

\* Every hook that ran was configured, ran on a counted tick whose result it
\* matches, ran once on that tick, and ran after the tick's counter update.
HooksNeverMismatch ==
    /\ \A i \in 1..Len(hook_calls) :
          /\ hook_calls[i][1] \in 1..Len(history)
          /\ hook_calls[i][2] \in HooksFor(history, hook_calls[i][1])
    /\ \A i, j \in 1..Len(hook_calls) : i # j => hook_calls[i] # hook_calls[j]
    /\ pc \in HookPcs =>
          /\ total_pings = Len(history)
          /\ consecutive_failures = StreakAt(history, Len(history))

\* C19: on every tick the hooks run are those configured for the tick's
\* result: no hook runs on a tick of the other result, none runs twice, each
\* runs after the counter update, and once a tick is over (the loop is at its
\* duration check or beyond, or has been left) each hook configured for its
\* result has run.
C19_HooksMatchResult ==
    ValidConfig =>
        /\ HooksNeverMismatch
        /\ \A t \in 1..total_pings :
              (t < Len(history) \/ pc \notin BeforeHooksDone) =>
                  HooksFor(history, t) \subseteq HooksRunOn(t)

\* C20: the loop of PingerWorker.run forwards every probe result to the
\* counters of its Pinger: once a result has been shown, total_pings is the
\* number of probes, consecutive_failures is the current failure streak, and
\* a streak of max_failures failures has raised the alert.
C20_WorkerForwardsResults ==
    pc \in {"w_cmd", "w_script", "w_sleep", "w_loop", "w_finally", "w_done"} =>
        /\ total_pings = Len(history)
        /\ successful_pings = SuccessesIn(history, Len(history))
        /\ consecutive_failures = StreakAt(history, Len(history))
        /\ \A t \in 1..Len(history) :
              StreakAt(history, t) >= max_failures => t \in alerts

\* The position of the loop of start, or the one it was left from.
TickPos == IF pc \in LoopPcs THEN pc ELSE left_at

\* The ticks whose print statement (lines 325-331) has been executed.
TicksPrinted ==
    IF TickPos \in {"alert", "duration", "sleep", "ping"} THEN 1..Len(history)
    ELSE 1..(Len(history) - 1)

\* C21 as stated: every tick that has passed its print statement has emitted
\* its result line, successful or failed, whatever the verbose setting.
C21_EveryTickEmitsEvent ==
    ValidConfig => \A t \in TicksPrinted : t \in printed

\* C21 amended: a tick emits its result line exactly when the probe failed or
\* verbose is set; a successful tick of a Pinger that is not verbose emits
\* nothing.
C21_EventWhenVerboseOrFailed ==
    /\ printed \subseteq 1..Len(history)
    /\ \A t \in TicksPrinted :
          t \in printed <=> (verbose \/ ~history[t].success)

\* Not verbose: the successful first tick printed nothing, the failed second
\* tick printed its line.
C21_Witness ==
    /\ ~verbose
    /\ pc = "sleep"
    /\ Len(history) = 2
    /\ history[1].success /\ ~history[2].success
    /\ printed = {2}

\* The ticks whose alert check (lines 333-336) has been executed, in a loop
\* that runs or has been left.
TicksAlertChecked ==
    IF TickPos \in {"duration", "sleep", "ping"} THEN 1..Len(history)
    ELSE 1..(Len(history) - 1)

\* C22 as stated: with max_failures >= 1, once an alert has been reported the
\* alert stays active: it is reported on every later tick of the run, a
\* successful one included.
C22_AlertStaysActive ==
    ValidConfig =>
        \A t \in TicksAlertChecked :
            (\E a \in alerts : a < t) => t \in alerts

\* C22 amended: with max_failures >= 1, a successful probe resets
\* consecutive_failures to 0 and with it ends the alert: no alert is reported
\* on a successful tick, and after a success the next alert needs max_failures
\* new failures in a row.
C22_AlertEndsOnRecovery ==
    max_failures >= 1 =>
        /\ \A t \in alerts :
              /\ ~history[t].success
              /\ \A k \in 1..(t - 1) : history[k].success => t - k >= max_failures
        /\ ( /\ pc \in RecordedPcs
             /\ Len(history) > 0
             /\ history[Len(history)].success ) => consecutive_failures = 0

\* An alert on the first tick, then a success: the counter is back at 0 and
\* the second tick reported no alert.
C22_Witness ==
    /\ max_failures = 1
    /\ pc = "duration"
    /\ Len(history) = 2
    /\ ~history[1].success /\ history[2].success
    /\ consecutive_failures = 0
    /\ alerts = {1}

\* C23: the ticks of one run of start are strictly sequential.  Whenever the
\* loop is about to start a probe, every earlier probe has returned and has
\* been counted and every hook configured for its result has run to its end;
\* a hook only runs on the tick whose probe returned last, and the ticks
\* start one after the other's work on the wall clock.
C23_TicksAreSequential ==
    /\ Len(tick_starts) = Len(history)
    /\ pc = "ping" =>
          /\ total_pings = Len(history)
          /\ successful_pings = SuccessesIn(history, Len(history))
          /\ Len(response_times) = successful_pings
          /\ consecutive_failures = StreakAt(history, Len(history))
          /\ \A t \in 1..Len(history) : HooksFor(history, t) \subseteq HooksRunOn(t)
    /\ \A i \in 1..Len(hook_calls) :
          /\ hook_calls[i][1] <= Len(history)
          /\ \A j \in 1..(i - 1) : hook_calls[j][1] <= hook_calls[i][1]
    /\ pc \in HookPcs => \A i \in 1..Len(hook_calls) : hook_calls[i][1] <= total_pings
    /\ \A k \in 1..Len(sleep_starts) : tick_starts[k] < sleep_starts[k]
    /\ \A k \in 2..Len(tick_starts) : sleep_starts[k - 1] <= tick_starts[k]

\* The third probe is about to start after a successful and a failed tick,
\* each of which ran its two hooks.
C23_Witness ==
    /\ pc = "ping"
    /\ Len(history) = 2
    /\ history[1].success /\ ~history[2].success
    /\ hook_calls = << <<1, "success_cmd">>, <<1, "success_script">>,
                       <<2, "failure_cmd">>, <<2, "failure_script">> >>
    /\ Len(sleep_starts) = 2

\* The latencies of the successful results of h, in order.
RECURSIVE SuccessLatencies(_)
SuccessLatencies(h) ==
    IF Len(h) = 0 THEN <<>>
    ELSE LET before == SuccessLatencies(SubSeq(h, 1, Len(h) - 1))
         IN  IF h[Len(h)].success THEN Append(before, h[Len(h)].response_time)
             ELSE before

\* C24: response_times never holds anything but the latencies of successful
\* probes in their order, and whenever the final summary is produced (after
\* the duration, a cancellation or an exception) it holds all of those that
\* were counted and its length is successful_pings.
C24_ResponseTimesMatchSuccesses ==
    ValidConfig =>
        /\ \E n \in 0..Len(history) :
              response_times = SuccessLatencies(SubSeq(history, 1, n))
        /\ pc \in {"unwind", "returned", "raised", "stored"} =>
              /\ Len(response_times) = successful_pings
              /\ response_times = SuccessLatencies(SubSeq(history, 1, total_pings))

\* The last probe was the HTTP HEAD probe.
HttpProbed ==
    /\ pc = "probed"
    /\ Strategy(packet_size, is_url, protocol) = "http"

\* C25: the HTTP probe reports success exactly for a status s with
\* 200 <= s < 400; for any other status it reports success=false with the
\* error "HTTP status: s", and for a transport error success=false with the
\* text of that error.
C25_HttpStatusRule ==
    HttpProbed =>
        LET s == last_env.http.status
        IN  IF last_env.http.exc = NoExc
            THEN /\ result.success <=> (200 <= s /\ s < 400)
                 /\ result.success => result.error = ""
                 /\ ~result.success => result.error = "HTTP status: " \o ToString(s)
            ELSE /\ ~result.success
                 /\ result.error = last_env.http.exc.text

\* Status 399 over https was reported as a success.
C25_Witness ==
    /\ HttpProbed
    /\ target = T_https
    /\ last_env.http.exc = NoExc
    /\ last_env.http.status = 399
    /\ result.success
    /\ result.error = ""

\* The last direct hook call was a call of execute_shell_command.
CommandWasCalled ==
    /\ pc = "hooked"
    /\ hook_calls[Len(hook_calls)][2] = "execute_shell_command"

\* C26: execute_shell_command does not raise when the command exits with a
\* non-zero status: it returns "Command failed: " followed by the command's
\* stderr; when the command exits with status 0 it returns its stdout.
C26_CommandFailureIsReturned ==
    CommandWasCalled =>
        /\ hook_env.run = NoExc => hook_result = HookReturn("stdout", {"spawn"})
        /\ hook_env.run.class = "CalledProcessError" =>
              /\ hook_result.exc = NoExc
              /\ hook_result.value = "Command failed: stderr"

\* The command exited with status 1 and its failure came back as a string.
C26_Witness ==
    /\ CommandWasCalled
    /\ hook_env.run.class = "CalledProcessError"
    /\ hook_result = HookReturn("Command failed: stderr", {"spawn"})

\* C27: when start exits on the duration, at least one probe has been
\* performed and counted, the exit was decided by the check that follows the
\* work of a tick with the limit reached, and no sleep was started after that
\* tick.
C27_DurationExitAfterProbeWithoutSleep ==
    left_by = "break" =>
        /\ Len(history) >= 1
        /\ total_pings = Len(history)
        /\ left_at = "duration"
        /\ TruthyInt(duration) /\ now - start_time >= duration[1]
        /\ Len(sleep_starts) = Len(history) - 1

\* The first probe took the whole duration: start returned after one tick
\* without ever sleeping.
C27_Witness ==
    /\ pc = "returned"
    /\ left_by = "break"
    /\ duration = Some(2)
    /\ Len(history) = 1
    /\ sleep_starts = <<>>
    /\ now = 2

\* The number of times `what` has been emitted.
Emitted(what) == Cardinality({ i \in 1..Len(signals) : signals[i] = what })

RunningWorkers == orphans + (IF isRunning THEN 1 ELSE 0)

\* C29: under every interleaving of Start clicks, Stop clicks and worker
\* completion, at most one PingerWorker is running, and the Start button is
\* enabled only while no worker is running.
C29_AtMostOneWorker ==
    /\ RunningWorkers <= 1
    /\ start_button => RunningWorkers = 0

====
